---- MODULE Spec2Model ----
(***************************************************************************)
(* yamusic-tui: the buffered seekable stream over a live HTTP body         *)
(* (api.HttpReadSeeker, src/api/readseeker.go).                            *)
(*                                                                         *)
(* Every method of the handle holds h.mux for its whole body, so each      *)
(* method call is one atomic action.  The background goroutine             *)
(* bufferFrames is a two-position process: "loop" (about to take the lock  *)
(* and run one iteration) and "wait" (parked in its select).               *)
(*                                                                         *)
(* The playback controller (tracker.Model) and the part of the main page   *)
(* that drives it (src/ui/components/tracker/tracker.go) follow the        *)
(* handle: their methods are functions from controller state to controller *)
(* state, so that a handler that calls several of them is one action.      *)
(***************************************************************************)
EXTENDS Integers, Sequences, FiniteSets

(* ---------------- bounds of the model ---------------- *)

\* declared total lengths range over 1..MaxTotal
MaxTotal == 3
\* destination slices handed to Read have 0..MaxDest bytes
MaxDest == 2
\* the size handed to bufferFrames; stands for _BUFFERING_AMOUNT (256),
\* scaled so that a stream is several chunks long
BufferingAmount == 2
\* source.Close() invocations are counted up to this many
MaxSrcCloses == 2
\* the longest stream the controller plays, in bytes
MaxLength == 8
\* rewind amounts range over -MaxAmount..MaxAmount milliseconds
MaxAmount == 3
\* the integer that stands for volume 1.0: a volume v is v / VolumeScale
VolumeScale == 1
\* streams downloaded in one run
MaxHandles == 2
\* the most bytes a new decoder reads from the stream before it answers
MaxHeader == 1
\* the most bytes the output pulls from the stream in one step
MaxPull == 2

\* Times are counted in units of 1000 ms.  The drift beyond which a pushed
\* snapshot makes the controller seek (5000 ms)
SyncThreshold == 5

(* ---------------- state ---------------- *)

VARIABLES
  totalSize,    \* h.totalSize
  readBuffer,   \* h.readBuffer
  readIndex,    \* h.readIndex
  buffered,     \* h.buffered
  done,         \* h.done
  closed,       \* h.closed: TRUE once the channel has been closed
  bufferTimer,  \* h.bufferTimer: "running", "stoppedPending" (stopped, one tick
                \* still sitting in its channel) or "stopped"
  srcPos,       \* h.source: bytes the live source has handed out so far
  srcCloses,    \* h.source: number of Close() invocations it has received
  bgpc,         \* position of the bufferFrames goroutine
  last,         \* what the most recent Read/Seek/Close call was and returned
  actor,        \* which kind of step produced this state: "init", "api", "bg"
  closeReturned,\* history: some Close() has returned
  mux,          \* h.mux: "free", or the name of the call that holds it inside a
                \* read of the live source that has not answered yet
  seekWaits     \* a Seek call stands at h.mux.Lock()

VARIABLES
  track,               \* m.track: the id of the current track descriptor, 0 for &api.Track{}
  volume,              \* m.volume
  player,              \* m.player: "nil", or the output's state "paused", "playing", "closed"
  playerVolume,        \* the volume last handed to m.player.SetVolume
  trackReader,         \* m.trackWrapper.trackReader: index into handles, 0 for nil
  decoder,             \* m.trackWrapper.decoder: "nil" or "ok"
  trackDurationMs,     \* m.trackWrapper.trackDurationMs
  YnisonPlaylist,      \* m.YnisonPlaylist
  UpdatePlayingStatus, \* m.UpdatePlayingStatus: events handed over, not yet forwarded
  handles,             \* the streams downloaded so far, as the controller sees them
  unexpectedStop,      \* an _UNEXPECTED_STOP sent to the program, not yet handled
  panicked,            \* the program has dereferenced a nil pointer
  PlayerState,         \* mainpage m.PlayerState: the stored remote snapshot
  stationTracks,       \* mainpage: station.Tracks of the remote queue's playlist, as ids
  stationCurrentTrack, \* mainpage: station.CurrentTrack of that playlist
  dispatcher,          \* where the program's Update loop stands: "idle" between two
                       \* messages, or the name of the method it is inside
  did                  \* what the most recent controller step was

handleVars == <<totalSize, readBuffer, readIndex, buffered, done, closed,
                bufferTimer, srcPos, srcCloses, bgpc, last, actor, closeReturned>>

controllerVars == <<track, volume, player, playerVolume, trackReader, decoder,
                    trackDurationMs, YnisonPlaylist, UpdatePlayingStatus, handles,
                    unexpectedStop, panicked, PlayerState, stationTracks,
                    stationCurrentTrack, dispatcher, did>>

lockVars == <<mux, seekWaits>>

vars == <<totalSize, readBuffer, readIndex, buffered, done, closed, bufferTimer,
          srcPos, srcCloses, bgpc, last, actor, closeReturned, mux, seekWaits,
          track, volume, player, playerVolume, trackReader, decoder,
          trackDurationMs, YnisonPlaylist, UpdatePlayingStatus, handles,
          unexpectedStop, panicked, PlayerState, stationTracks,
          stationCurrentTrack, dispatcher, did>>

(* ---------------- the live source ---------------- *)

\* the byte the live source holds at offset i (0-based); all offsets of a
\* modelled stream hold different bytes
SourceByte(i) == (7 * i + 3) % 256

\* the n bytes the source holds from offset pos on
SourceBytes(pos, n) == [i \in 1..n |-> SourceByte(pos + i - 1)]

\* content of a destination slice before Read copies into it
Stale == 0 - 1

Min(a, b) == IF a < b THEN a ELSE b

\* one h.source.Read(p) with len(p) = k, the source standing at offset pos:
\* the set of (n, err) it may return.  A released body answers
\* http.ErrBodyReadAfterClose; a live one hands out 1..k of the remaining
\* bytes, reports io.EOF with (or after) the last ones, or fails after some.
SourceRead(pos, isClosed, k) ==
  IF isClosed THEN {[n |-> 0, err |-> "ErrBodyReadAfterClose"]}
  ELSE IF k = 0 THEN {[n |-> 0, err |-> "nil"]}
  ELSE LET avail == totalSize - pos
           m == Min(k, avail)
       IN  {[n |-> j, err |-> "nil"] : j \in 1..m}
           \cup (IF avail <= k THEN {[n |-> avail, err |-> "EOF"]} ELSE {})
           \cup {[n |-> j, err |-> "ErrNet"] : j \in 0..m}

\* io.ReadFull(h.source, frame) with len(frame) = m, having read got bytes:
\* reads until the frame is full or the source returns an error
RECURSIVE ReadFull(_, _, _, _)
ReadFull(pos, isClosed, m, got) ==
  IF got >= m THEN {[n |-> got, err |-> "nil"]}
  ELSE UNION { LET n1 == got + r.n
               IN  IF n1 >= m THEN {[n |-> n1, err |-> "nil"]}
                   ELSE IF r.err = "nil" THEN ReadFull(pos + r.n, isClosed, m, n1)
                   ELSE IF r.err = "EOF" /\ n1 > 0
                        THEN {[n |-> n1, err |-> "ErrUnexpectedEOF"]}
                   ELSE {[n |-> n1, err |-> r.err]}
             : r \in SourceRead(pos, isClosed, m - got) }

(* ---------------- construction ---------------- *)

\* last before any call; op names the method, target is the absolute position a
\* Seek computed, pos the position it returned, n and dest what a Read returned
\* and left in its destination, err the error returned
NoCall == [op |-> "none", target |-> 0, pos |-> 0, n |-> 0, err |-> "nil",
           dest |-> <<>>]

\* some Read, Seek or Close has been called on the handle
touched == last.op # "none"

\* did before any controller step; op names the method the step called, note
\* tells how it went, arg and from are the amount and the stream cursor at the
\* start of a Rewind, trip the cursor from which the Rewind before it set out if
\* this one takes its amount back
NoStep == [op |-> "none", arg |-> 0, from |-> 0, note |-> "none", trip |-> Stale]

\* m.PlayerState before any snapshot: the queue's playable list and current
\* index, the progress, the duration and the paused flag of its status
NoPlayerState ==
  [list |-> <<>>, index |-> 0, progressMs |-> 0, durationMs |-> 0, paused |-> FALSE]

\* tracker.New and mainpage Run before any message: the empty track descriptor,
\* no output, an empty wrapper, no tracks loaded for the remote queue; v is
\* config.Current.Volume, y whether the remote queue is the selected playlist
New(v, y) ==
  /\ track = 0
  /\ volume = v
  /\ player = "nil"
  /\ playerVolume = 0
  /\ trackReader = 0
  /\ decoder = "nil"
  /\ trackDurationMs = 0
  /\ YnisonPlaylist = y
  /\ UpdatePlayingStatus = <<>>
  /\ handles = <<>>
  /\ unexpectedStop = FALSE
  /\ panicked = FALSE
  /\ PlayerState = NoPlayerState
  /\ stationTracks = <<>>
  /\ stationCurrentTrack = 0
  /\ dispatcher = "idle"
  /\ did = NoStep

\* newReadSeaker(rc, totalSize): a fresh handle, the goroutine started
newReadSeaker ==
  /\ readBuffer = <<>>
  /\ readIndex = 0
  /\ buffered = FALSE
  /\ done = FALSE
  /\ closed = FALSE
  /\ bufferTimer = "running"
  /\ srcPos = 0
  /\ srcCloses = 0
  /\ bgpc = "loop"
  /\ last = NoCall
  /\ actor = "init"
  /\ closeReturned = FALSE
  /\ mux = "free"
  /\ seekWaits = FALSE

\* one stream under test, the controller idle beside it
Init ==
  /\ New(VolumeScale, FALSE)
  /\ totalSize \in 1..MaxTotal
  /\ newReadSeaker

(* ---------------- bufferFrames: the background goroutine ---------------- *)

\* mutant of BufferDone: the comparison of the buffer with the total turned round
BufferDoneInverted(isBuffered, total, bufLen) == isBuffered \/ bufLen <= total

\* mutant of BufferDone: the buffered flag is not consulted
BufferDoneByLength(isBuffered, total, bufLen) == total <= bufLen

\* line 46: the loop's exit test, taken under the lock
BufferDone(isBuffered, total, bufLen) == isBuffered \/ total <= bufLen

\* mutant of BufferFrame: a frame twice the size asked for
BufferFrameDoubled(size) == 2 * size

\* line 52: the frame one iteration asks the source to fill
BufferFrame(size) == size

\* line 54: which results of source.Read get appended to the buffer
BufferAppends(err) == err = "nil" \/ err = "EOF"

\* lines 43-63: one iteration of the loop, from Lock to Unlock
bufferFrames(size) ==
  /\ bgpc = "loop"
  /\ IF BufferDone(buffered, totalSize, Len(readBuffer))
     THEN /\ buffered' = TRUE
          /\ bgpc' = "done"
          /\ UNCHANGED <<readBuffer, srcPos>>
     ELSE \E r \in SourceRead(srcPos, srcCloses > 0, BufferFrame(size)) :
          /\ srcPos' = srcPos + r.n
          /\ readBuffer' = IF BufferAppends(r.err)
                           THEN readBuffer \o SourceBytes(srcPos, r.n)
                           ELSE readBuffer
          /\ buffered' = (buffered \/ r.err = "EOF")
          /\ bgpc' = IF r.err = "EOF" THEN "done" ELSE "wait"
  /\ actor' = "bg"
  /\ UNCHANGED <<totalSize, readIndex, done, closed, bufferTimer, srcCloses,
                 last, closeReturned>>
  /\ UNCHANGED controllerVars

\* lines 66-68: the select takes a tick of the ticker and loops
bufferTimerTick ==
  /\ bgpc = "wait"
  /\ bufferTimer \in {"running", "stoppedPending"}
  /\ bufferTimer' = IF bufferTimer = "running" THEN "running" ELSE "stopped"
  /\ bgpc' = "loop"
  /\ actor' = "bg"
  /\ UNCHANGED <<totalSize, readBuffer, readIndex, buffered, done, closed, srcPos,
                 srcCloses, last, closeReturned>>
  /\ UNCHANGED controllerVars

\* lines 69-70: the select sees the closed channel and the goroutine returns
bufferClosed ==
  /\ bgpc = "wait"
  /\ closed
  /\ bgpc' = "done"
  /\ actor' = "bg"
  /\ UNCHANGED <<totalSize, readBuffer, readIndex, buffered, done, closed,
                 bufferTimer, srcPos, srcCloses, last, closeReturned>>
  /\ UNCHANGED controllerVars

(* ---------------- Close ---------------- *)

\* line 82: Close stops the ticker and closes the channel only if not yet buffered
CloseCancels(isBuffered) == ~isBuffered

\* line 88: Close releases the source only if the handle is not marked done
CloseReleases(isDone) == ~isDone

\* lines 75-94
Close ==
  /\ CloseReleases(done) => srcCloses < MaxSrcCloses
  /\ readBuffer' = <<>>
  /\ IF CloseCancels(buffered)
     THEN /\ bufferTimer' \in {"stopped", "stoppedPending"}
          /\ buffered' = TRUE
          /\ closed' = TRUE
     ELSE UNCHANGED <<bufferTimer, buffered, closed>>
  /\ IF CloseReleases(done)
     THEN /\ srcCloses' = srcCloses + 1
          /\ done' = TRUE
     ELSE UNCHANGED <<srcCloses, done>>
  /\ last' = [NoCall EXCEPT !.op = "Close"]
  /\ actor' = "api"
  /\ closeReturned' = TRUE
  /\ UNCHANGED <<totalSize, readIndex, srcPos, bgpc>>
  /\ UNCHANGED controllerVars

(* ---------------- Seek ---------------- *)

Whence == {"SeekStart", "SeekCurrent", "SeekEnd", "other"}

\* lines 160-167: the absolute position of (offset, whence); pos keeps its zero
\* value for a whence the switch does not list
SeekPos(offset, whence, index, total) ==
  CASE whence = "SeekStart"   -> offset
    [] whence = "SeekCurrent" -> index + offset
    [] whence = "SeekEnd"     -> total + offset
    [] OTHER                  -> 0

\* mutant of SeekOutOfSize: the upper bound is not tested
SeekOutOfSizeNoUpperBound(pos, total) == pos < 0

\* line 169: the bounds test
SeekOutOfSize(pos, total) == pos < 0 \/ pos > total

\* lines 173-177
SeekDone(pos, total) == pos = total

\* lines 157-183
Seek(offset, whence) ==
  LET pos == SeekPos(offset, whence, readIndex, totalSize) IN
  /\ IF SeekOutOfSize(pos, totalSize)
     THEN /\ last' = [NoCall EXCEPT !.op = "Seek", !.target = pos,
                                    !.pos = readIndex, !.err = "errOutOfSize"]
          /\ UNCHANGED <<readIndex, done>>
     ELSE /\ done' = SeekDone(pos, totalSize)
          /\ readIndex' = pos
          /\ last' = [NoCall EXCEPT !.op = "Seek", !.target = pos, !.pos = pos]
  /\ actor' = "api"
  /\ UNCHANGED <<totalSize, readBuffer, buffered, closed, bufferTimer, srcPos,
                 srcCloses, bgpc, closeReturned>>
  /\ UNCHANGED controllerVars

(* ---------------- Read ---------------- *)

\* copy(dst, src): the first min(len(dst), len(src)) bytes of src over dst
Copy(dst, src) ==
  [i \in 1..Len(dst) |-> IF i <= Len(src) THEN src[i] ELSE dst[i]]

\* s[from:] of a Go slice (from is 0-based)
SliceFrom(s, from) == SubSeq(s, from + 1, Len(s))

\* line 107: the frame pulled when the cursor is at or beyond the buffer's end
ReadGapFrame(index, bufLen, destLen) == (index - bufLen) + destLen

\* mutant of ReadGapIndex: the gap is not taken off the count
ReadGapIndexCountsGap(index, bufLen, n) == index + n

\* line 115: the cursor after a read at or beyond the buffer's end
ReadGapIndex(index, bufLen, n) == index + (n - (index - bufLen))

\* line 108: the count Read returns in that branch is the named result n, which
\* holds io.ReadFull's count and is not assigned again
ReadGapCount(index, bufLen, n) == n

\* lines 119-123: the part of the request the buffer already holds
ReadBufferedPart(buf, index, destLen) ==
  SubSeq(buf, index + 1, Min(index + destLen, Len(buf)))

\* line 144: a Read ending in io.EOF on a handle not marked done releases the source
ReadReleases(err, isDone) == err = "EOF" /\ ~isDone

\* lines 143-151: the error Read returns
ReadErr(err, isDone) ==
  IF err = "EOF" /\ ~isDone THEN "EOF"
  ELSE IF err = "ErrBodyReadAfterClose" THEN "EOF"
  ELSE err

\* lines 143-153: the tail every Read ends with, given what its branch computed
ReadFinish(destLen, n, err, dest, buf, index, r) ==
  /\ ReadReleases(err, done) => srcCloses < MaxSrcCloses
  /\ readBuffer' = buf
  /\ readIndex' = index
  /\ srcPos' = srcPos + r.n
  /\ IF ReadReleases(err, done)
     THEN /\ srcCloses' = srcCloses + 1
          /\ buffered' = TRUE
          /\ done' = TRUE
     ELSE UNCHANGED <<srcCloses, buffered, done>>
  /\ last' = [NoCall EXCEPT !.op = "Read", !.n = n,
                            !.err = ReadErr(err, done), !.dest = dest]
  /\ actor' = "api"
  /\ UNCHANGED <<totalSize, closed, bufferTimer, bgpc, closeReturned>>
  /\ UNCHANGED controllerVars

\* lines 100-155: Read(dest) with len(dest) = destLen
Read(destLen) ==
  LET readBufLen == Len(readBuffer)
      dest0 == [i \in 1..destLen |-> Stale]
  IN
  IF readIndex >= readBufLen
  THEN \* lines 107-115
       \E r \in ReadFull(srcPos, srcCloses > 0,
                         ReadGapFrame(readIndex, readBufLen, destLen), 0) :
         LET buf == readBuffer \o SourceBytes(srcPos, r.n)
             inBuf == readIndex < Len(buf)
         IN  ReadFinish(destLen,
                        ReadGapCount(readIndex, readBufLen, r.n),
                        IF inBuf THEN r.err ELSE "EOF",
                        IF inBuf THEN Copy(dest0, SliceFrom(buf, readIndex)) ELSE dest0,
                        buf,
                        ReadGapIndex(readIndex, readBufLen, r.n),
                        r)
  ELSE \* lines 117-140
       LET bufferedPart == ReadBufferedPart(readBuffer, readIndex, destLen)
           need == destLen - Len(bufferedPart)
       IN  \E r \in (IF need > 0 THEN SourceRead(srcPos, srcCloses > 0, need)
                                 ELSE {[n |-> 0, err |-> "nil"]}) :
             LET unbufferedPart == SourceBytes(srcPos, r.n)
                 n == Len(bufferedPart) + r.n
                 index == readIndex + n
             IN  ReadFinish(destLen,
                            n,
                            IF index >= totalSize THEN "EOF" ELSE r.err,
                            Copy(dest0, bufferedPart \o unbufferedPart),
                            readBuffer \o unbufferedPart,
                            index,
                            r)

(* ---------------- the handle as a state machine ---------------- *)

\* the (offset, whence) pairs handed to Seek: every origin, and every offset
\* whose target lies in [0, total] or one byte outside it
Offsets == (0 - (MaxTotal + 1))..(MaxTotal + 1)

SeekInputs ==
  {in \in Offsets \X Whence :
     /\ SeekPos(in[1], in[2], readIndex, totalSize) \in (0 - 1)..(totalSize + 1)
     /\ in[2] = "other" => in[1] = 1}

\* h.mux.Lock() returns at once: no call holds the lock inside a read of the
\* source, and the step leaves the lock as it found it
Unlocked == mux = "free" /\ UNCHANGED lockVars

\* the source answers every read at once
Next ==
  \/ bufferFrames(BufferingAmount) /\ Unlocked
  \/ bufferTimerTick /\ UNCHANGED lockVars
  \/ bufferClosed /\ UNCHANGED lockVars
  \/ \E destLen \in 0..MaxDest : Read(destLen) /\ Unlocked
  \/ \E in \in SeekInputs : Seek(in[1], in[2]) /\ Unlocked
  \/ Close /\ Unlocked

Spec == Init /\ [][Next]_vars

\* the scheduler runs the goroutine and the ticker keeps firing; the source keeps
\* handing out bytes to the goroutine whenever it is asked again and again
LiveSpec ==
  /\ Init
  /\ [][Next]_vars
  /\ WF_vars(bufferTimerTick /\ UNCHANGED lockVars)
  /\ SF_vars(bufferFrames(BufferingAmount) /\ Unlocked /\ srcPos' > srcPos)

\* the goroutine, once runnable, runs: it gets the lock and it sees the closed
\* channel in its select
CloseLiveSpec ==
  /\ LiveSpec
  /\ WF_vars(bufferFrames(BufferingAmount) /\ Unlocked)
  /\ WF_vars(bufferClosed /\ UNCHANGED lockVars)

(* ---------------- a live source that takes its time ---------------- *)

\* the cursor stands where a Read of up to MaxDest bytes has to ask the source
ReadAsksSource == readIndex + MaxDest > Len(readBuffer)

\* Read lines 101-127: a Read has taken the lock and asked the source, which
\* does not answer yet
ReadStalls ==
  /\ mux = "free"
  /\ srcCloses = 0
  /\ ReadAsksSource
  /\ mux' = "Read"
  /\ UNCHANGED <<handleVars, controllerVars, seekWaits>>

\* bufferFrames lines 44-53: the goroutine has taken the lock and asked the
\* source, which does not answer yet
bufferStalls ==
  /\ mux = "free"
  /\ srcCloses = 0
  /\ bgpc = "loop"
  /\ ~BufferDone(buffered, totalSize, Len(readBuffer))
  /\ mux' = "bufferFrames"
  /\ UNCHANGED <<handleVars, controllerVars, seekWaits>>

\* the source answers the Read that holds the lock, which runs to its Unlock
ReadResumes ==
  /\ mux = "Read"
  /\ \E destLen \in 1..MaxDest : Read(destLen)
  /\ mux' = "free"
  /\ UNCHANGED seekWaits

\* the source answers the goroutine, which runs to its Unlock
bufferResumes ==
  /\ mux = "bufferFrames"
  /\ bufferFrames(BufferingAmount)
  /\ mux' = "free"
  /\ UNCHANGED seekWaits

\* Seek line 158: Seek is called while the lock is held and waits for it
SeekWaits ==
  /\ mux # "free"
  /\ ~seekWaits
  /\ seekWaits' = TRUE
  /\ UNCHANGED <<handleVars, controllerVars, mux>>

\* Seek lines 158-183: the lock is free again and the waiting Seek runs
SeekProceeds ==
  /\ seekWaits
  /\ mux = "free"
  /\ \E in \in SeekInputs : Seek(in[1], in[2])
  /\ seekWaits' = FALSE
  /\ UNCHANGED mux

\* the handle over a source that may take its time to answer
StallNext ==
  \/ Next
  \/ ReadStalls
  \/ bufferStalls
  \/ ReadResumes
  \/ bufferResumes
  \/ SeekWaits
  \/ SeekProceeds

StallSpec == Init /\ [][StallNext]_vars

(* ---------------- the playback controller: tracker.Model ---------------- *)

\* the catalogue: the ids of the tracks; 0 is the empty descriptor &api.Track{}
Tracks == {1, 2}

\* track.DurationMs of track t, in time units; powers of two, so that the
\* float64 arithmetic of Rewind is exact
DurationMs(t) == 4 * t

\* the Content-Length the server declares for the stream of track t
ContentLength(t) == MaxLength - 3 * (t - 1)

\* Go's % on int64: the remainder takes the sign of the dividend
GoRem(a, b) == IF a >= 0 THEN a % b ELSE 0 - ((0 - a) % b)

\* math.Round(num / den) for den > 0: to nearest, halves away from zero
GoRound(num, den) ==
  IF num >= 0 THEN (2 * num + den) \div (2 * den)
  ELSE 0 - ((2 * (0 - num) + den) \div (2 * den))

\* the controller's fields, and the main page's track list of the remote queue,
\* as one value
Cur ==
  [track |-> track, volume |-> volume, player |-> player,
   playerVolume |-> playerVolume, trackReader |-> trackReader,
   decoder |-> decoder, trackDurationMs |-> trackDurationMs,
   YnisonPlaylist |-> YnisonPlaylist,
   UpdatePlayingStatus |-> UpdatePlayingStatus, handles |-> handles,
   panicked |-> panicked, stationTracks |-> stationTracks,
   stationCurrentTrack |-> stationCurrentTrack]

\* a handle as the controller sees it (readseeker.go lines 30-37): closes counts
\* Close() calls, srcCloses the source.Close() calls made on its behalf
NewHandle(total) ==
  [totalSize |-> total, readIndex |-> 0, done |-> FALSE, closes |-> 0,
   srcCloses |-> 0]

\* HttpReadSeeker.Seek on handle h (readseeker.go lines 157-183)
HandleSeek(h, offset, whence) ==
  LET pos == SeekPos(offset, whence, h.readIndex, h.totalSize)
  IN  IF SeekOutOfSize(pos, h.totalSize) THEN h
      ELSE [h EXCEPT !.done = SeekDone(pos, h.totalSize), !.readIndex = pos]

\* HttpReadSeeker.Close on handle h (readseeker.go lines 75-94)
HandleClose(h) ==
  [h EXCEPT !.closes = @ + 1,
            !.srcCloses = IF CloseReleases(h.done) THEN @ + 1 ELSE @,
            !.done = TRUE]

\* HttpReadSeeker.Read on an open handle h delivering k bytes (readseeker.go
\* lines 137-151): the cursor advances, reaching the total is end of data
HandleRead(h, k) ==
  LET index == h.readIndex + k
      err == IF index >= h.totalSize THEN "EOF" ELSE "nil"
  IN  [h EXCEPT !.readIndex = index,
                !.srcCloses = IF ReadReleases(err, h.done) THEN @ + 1 ELSE @,
                !.done = IF ReadReleases(err, h.done) THEN TRUE ELSE @]

\* the position of the attached handle's cursor, 0 with none attached
Cursor(s) == IF s.trackReader = 0 THEN 0 ELSE s.handles[s.trackReader].readIndex

\* trackReader.Length()
Length(s) == s.handles[s.trackReader].totalSize

\* the attached handle replaced by h
WithReader(s, h) == [s EXCEPT !.handles[s.trackReader] = h]

\* m.UpdatePlayingStatus <- PlayingStatus{..., Paused: paused, ...}
Send(s, paused) ==
  [s EXCEPT !.UpdatePlayingStatus = Append(@, [paused |-> paused])]

\* lines 371-373
IsPlaying(s) == s.player # "nil" /\ s.trackReader # 0 /\ s.player = "playing"

\* lines 316-318: int64(float64(m.track.DurationMs) * trackReader.Progress())
GetCurrentPos(s) ==
  IF s.trackReader = 0 THEN 0
  ELSE (DurationMs(s.track) * Cursor(s)) \div Length(s)

\* lines 298-310
SetVolume(s, v) ==
  LET stored == IF v < 0 THEN 0 ELSE IF v > VolumeScale THEN VolumeScale ELSE v
      s1 == [s EXCEPT !.volume = stored]
  IN  IF s.player # "nil"
      THEN [s1 EXCEPT !.playerVolume = v]
      ELSE s1

\* mutant of StopClosesReader: Stop leaves the handle open
StopKeepsReader(s) == FALSE

\* lines 363-365: Stop closes the attached handle if there is one
StopClosesReader(s) == s.trackReader # 0

\* lines 355-367, Stop on an output that is there, up to m.player.Close();
\* decoder.Seek(0, io.SeekStart) rewinds the handle it reads
StopReleases(s) ==
  LET s1 == IF s.decoder # "nil"
            THEN WithReader(s, HandleSeek(s.handles[s.trackReader], 0, "SeekStart"))
            ELSE s
      s2 == IF StopClosesReader(s1)
            THEN WithReader(s1, HandleClose(s1.handles[s1.trackReader]))
            ELSE s1
  IN  [s2 EXCEPT !.player = "closed"]

\* lines 350-369
Stop(s) ==
  IF s.player = "nil" THEN s
  ELSE [StopReleases(s) EXCEPT !.player = "nil"]

\* mutant of PlayReturns: Play does not test whether the output is playing
PlayReturnsUnlessPlaying(s) == s.player = "nil" \/ s.trackReader = 0

\* lines 380-385: the early returns of Play
PlayReturns(s) == s.player = "nil" \/ s.trackReader = 0 \/ s.player = "playing"

\* lines 400-405: the early returns of Pause
PauseReturns(s) == s.player = "nil" \/ s.trackReader = 0 \/ s.player # "playing"

\* player.Play() and player.Pause() on an output in state p; a closed output
\* stays closed
OutputSet(p, to) == IF p = "closed" THEN p ELSE to

\* mutant of Reports: the selected playlist is not consulted
ReportsUnselected(s, report) == report

\* lines 386, 406, 440: a transport change is sent outward only if the remote
\* queue is the selected playlist and the caller asks for the report
Reports(s, report) == s.YnisonPlaylist /\ report

\* lines 379-397
Play(s, report) ==
  IF PlayReturns(s) THEN s
  ELSE LET s1 == IF Reports(s, report) THEN Send(s, FALSE) ELSE s
       IN  [s1 EXCEPT !.player = OutputSet(@, "playing")]

\* lines 399-417
Pause(s, report) ==
  IF PauseReturns(s) THEN s
  ELSE LET s1 == IF Reports(s, report) THEN Send(s, TRUE) ELSE s
       IN  [s1 EXCEPT !.player = OutputSet(@, "paused")]

\* player.Seek(offset, whence): the output hands the request to the wrapper,
\* which seeks the attached handle; a closed output does nothing with it
PlayerSeek(s, offset, whence) ==
  IF s.player = "closed" THEN s
  ELSE WithReader(s, HandleSeek(s.handles[s.trackReader], offset, whence))

\* line 427: the byte offset of amountMs milliseconds
ByteOffset(length, durationMs, amountMs) == GoRound(length * amountMs, durationMs)

\* mutant of AlignPos: the alignment term added twice
AlignPosTwice(pos) == pos + 2 * GoRem(pos, 4)

\* lines 429-431: "align position by 4 bytes"
AlignPos(pos) == pos + GoRem(pos, 4)

\* mutant of RewindSeek: no test against the length
RewindSeekUnbounded(pos, length) ==
  IF pos <= 0 THEN [offset |-> 0, whence |-> "SeekStart"]
  ELSE [offset |-> pos, whence |-> "SeekStart"]

\* lines 433-439: the request Rewind makes for the aligned position
RewindSeek(pos, length) ==
  IF pos <= 0 THEN [offset |-> 0, whence |-> "SeekStart"]
  ELSE IF pos >= length THEN [offset |-> 0, whence |-> "SeekEnd"]
  ELSE [offset |-> pos, whence |-> "SeekStart"]

\* lines 426-431: the position Rewind aims at; int64(Length * Progress()) is the
\* cursor itself
RewindPos(s, amountMs) ==
  AlignPos(Cursor(s) + ByteOffset(Length(s), s.trackDurationMs, amountMs))

\* lines 419-449; with no output Rewind sends the program a STOP, which
\* ControlStop handles whenever it arrives
Rewind(s, amountMs, report) ==
  IF s.player = "nil" THEN s
  ELSE LET req == RewindSeek(RewindPos(s, amountMs), Length(s))
           s1 == PlayerSeek(s, req.offset, req.whence)
       IN  IF Reports(s, report)
           THEN Send(s1, IsPlaying(s1))
           ELSE s1

\* the bytes mp3.NewDecoder may consume from handle h before it answers
DecoderReads(h) == 0..Min(MaxHeader, h.totalSize - h.readIndex)

\* lines 320-348: t is the track, r the handle downloaded for it, k the bytes
\* the decoder reads from it and accept whether it takes the header
StartTrack(s, t, r, k, accept) ==
  LET s0 == IF s.player # "nil" THEN Stop(s) ELSE s
      s1 == [s0 EXCEPT !.track = t, !.handles[r] = HandleRead(@, k)]
      s2 == [s1 EXCEPT !.trackReader = r, !.decoder = "ok",
                       !.trackDurationMs = DurationMs(t), !.player = "paused",
                       !.playerVolume = s1.volume]
      s3 == IF s2.YnisonPlaylist THEN Send(s2, FALSE) ELSE s2
  IN  IF accept THEN [s3 EXCEPT !.player = OutputSet(@, "playing")] ELSE s1

\* lines 451-467: k and accept as in StartTrack; m.player.Close() on a nil
\* output is a nil dereference
restartTrack(s, k, accept) ==
  IF s.player = "nil" THEN [s EXCEPT !.panicked = TRUE]
  ELSE LET s1 == WithReader([s EXCEPT !.player = "closed"],
                            HandleRead(s.handles[s.trackReader], k))
           s2 == [s1 EXCEPT !.decoder = "ok", !.player = "paused",
                            !.playerVolume = s1.volume]
           amountMs == (s2.trackDurationMs * Cursor(s2)) \div Length(s2)
           s3 == WithReader(s2, HandleSeek(s2.handles[s2.trackReader], 0, "SeekStart"))
       IN  IF accept THEN Rewind(s3, amountMs, TRUE)
           ELSE s1

\* mainpage lines 1095-1132: download tells whether TrackDownloadInfo and
\* DownloadTrack succeed
playTrack(s, t, download, k, accept) ==
  LET s0 == Stop(s)
      s1 == [s0 EXCEPT !.handles = Append(@, NewHandle(ContentLength(t)))]
  IN  IF ~download THEN s0
      ELSE StartTrack(s1, t, Len(s1.handles), k, accept)

(* ---------------- the controller's handlers ---------------- *)

\* the handler ran to its end with controller state s: a send on the unbuffered
\* channel returns only once the forwarding task has taken the event before it;
\* the counters of source.Close() calls are followed up to MaxSrcCloses
Commit(result, op, arg, note) ==
  \E s \in {result} :
    /\ ~panicked
    /\ Len(s.UpdatePlayingStatus) <= 1
    /\ Len(s.handles) <= MaxHandles
    /\ \A i \in 1..Len(s.handles) : s.handles[i].srcCloses <= MaxSrcCloses
    /\ track' = s.track
    /\ volume' = s.volume
    /\ player' = s.player
    /\ playerVolume' = s.playerVolume
    /\ trackReader' = s.trackReader
    /\ decoder' = s.decoder
    /\ trackDurationMs' = s.trackDurationMs
    /\ YnisonPlaylist' = s.YnisonPlaylist
    /\ UpdatePlayingStatus' = s.UpdatePlayingStatus
    /\ handles' = s.handles
    /\ panicked' = s.panicked
    /\ stationTracks' = s.stationTracks
    /\ stationCurrentTrack' = s.stationCurrentTrack
    /\ did' = [op |-> op, arg |-> arg,
               from |-> IF op = "Rewind" THEN Cursor(Cur) ELSE 0, note |-> note,
               trip |-> IF /\ op = "Rewind" /\ note # "returned"
                           /\ did.op = "Rewind" /\ did.note = "sought"
                           /\ did.arg = 0 - arg
                        THEN did.from ELSE Stale]
    /\ UNCHANGED <<handleVars, lockVars>>

\* tracker Update lines 216-224: the play/pause key
KeyPlayerPause ==
  /\ Commit(IF player = "nil" THEN Cur
            ELSE IF player = "playing" THEN Pause(Cur, TRUE) ELSE Play(Cur, TRUE),
            IF player = "nil" THEN "other"
            ELSE IF player = "playing" THEN "Pause" ELSE "Play",
            0, IF player = "nil" THEN "none" ELSE "acted")
  /\ UNCHANGED <<unexpectedStop, PlayerState, dispatcher>>

\* tracker Update lines 226-230: the rewind keys; amountMs is +rewindAmount or
\* -rewindAmount
KeyRewind(amountMs) ==
  /\ Commit(Rewind(Cur, amountMs, TRUE), "Rewind", amountMs,
            IF player = "nil" THEN "returned"
            ELSE IF RewindSeek(RewindPos(Cur, amountMs), Length(Cur)).offset = 0
                 THEN "clamped" ELSE "sought")
  /\ UNCHANGED <<unexpectedStop, PlayerState, dispatcher>>

\* tracker Update lines 241-249: the volume keys; step is +VolumeStep or -VolumeStep
KeyVolume(step) ==
  /\ Commit(SetVolume(Cur, volume + step), "SetVolume", 0, "none")
  /\ UNCHANGED <<unexpectedStop, PlayerState, dispatcher>>

\* tracker Update lines 256-257
ControlPlay ==
  /\ Commit(Play(Cur, TRUE), "Play", 0,
            IF PlayReturns(Cur) THEN "returned" ELSE "acted")
  /\ UNCHANGED <<unexpectedStop, PlayerState, dispatcher>>

\* tracker Update lines 258-259
ControlPause ==
  /\ Commit(Pause(Cur, TRUE), "Pause", 0,
            IF PauseReturns(Cur) THEN "returned" ELSE "acted")
  /\ UNCHANGED <<unexpectedStop, PlayerState, dispatcher>>

\* tracker Update lines 260-261: a STOP from the main page or from Rewind
ControlStop ==
  /\ Commit(Stop(Cur), "Stop", 0, IF player = "nil" THEN "returned" ELSE "acted")
  /\ UNCHANGED <<unexpectedStop, PlayerState, dispatcher>>

\* tracker Update lines 262-263
ControlUnexpectedStop(k, accept) ==
  /\ unexpectedStop
  /\ k \in (IF player = "nil" THEN {0} ELSE DecoderReads(handles[trackReader]))
  /\ player = "nil" => accept
  /\ Commit(restartTrack(Cur, k, accept), "restartTrack", 0,
            IF accept THEN "accepted" ELSE "rejected")
  /\ unexpectedStop' = FALSE
  /\ UNCHANGED <<PlayerState, dispatcher>>

\* the output device dies under a playing session and the wrapper sends
\* _UNEXPECTED_STOP to the program
OutputStops ==
  /\ player = "playing"
  /\ ~unexpectedStop
  /\ Commit(Cur, "other", 0, "none")
  /\ unexpectedStop' = TRUE
  /\ UNCHANGED <<PlayerState, dispatcher>>

\* the playing output pulls k more bytes of the stream through the decoder
OutputReads(k) ==
  /\ player = "playing"
  /\ k <= Length(Cur) - Cursor(Cur)
  /\ Commit(WithReader(Cur, HandleRead(handles[trackReader], k)), "other",
            0, "none")
  /\ UNCHANGED <<unexpectedStop, PlayerState, dispatcher>>

\* mainpage lines 1095-1132, called for a track the user or the queue picked
PlayTrack(t, download, k, accept) ==
  /\ download => Len(handles) < MaxHandles
  /\ k \in (IF download THEN DecoderReads(NewHandle(ContentLength(t))) ELSE {0})
  /\ ~download => accept
  /\ Commit(playTrack(Cur, t, download, k, accept), "playTrack", 0,
            IF ~download THEN "failed"
            ELSE IF accept THEN "accepted" ELSE "rejected")
  /\ UNCHANGED <<unexpectedStop, PlayerState, dispatcher>>

\* mainpage lines 550-559: the forwarding task takes the next event
forwardStatus ==
  /\ UpdatePlayingStatus # <<>>
  /\ Commit([Cur EXCEPT !.UpdatePlayingStatus = Tail(@)], "other", 0, "none")
  /\ UNCHANGED <<unexpectedStop, PlayerState, dispatcher>>

\* mainpage Update line 680: the flag follows the kind of the selected playlist
selectPlaylist ==
  /\ Commit([Cur EXCEPT !.YnisonPlaylist = ~@], "other", 0, "none")
  /\ UNCHANGED <<unexpectedStop, PlayerState, dispatcher>>

\* the queues a snapshot may carry: every ordering of some of the catalogue's
\* tracks
Queues ==
  {q \in UNION {[1..n -> Tracks] : n \in 1..Cardinality(Tracks)} :
     \A i, j \in DOMAIN q : q[i] = q[j] => i = j}

\* what a pushed snapshot carries: whether its active device is this one, the
\* queue's playable list and current index, the status' progress and paused
\* flag, and the volume it lists for this device
Snapshots ==
  {snap \in [active : BOOLEAN, list : Queues, index : 0..(Cardinality(Tracks) - 1),
             progressMs : {0, SyncThreshold + 1}, paused : BOOLEAN,
             volume : {0, VolumeScale}] :
     snap.index < Len(snap.list)}

Abs(x) == IF x < 0 THEN 0 - x ELSE x

\* mainpage line 617: the snapshot's current index lies within its playable list
InQueue(snap) == snap.index \in 0..(Len(snap.list) - 1)

\* mainpage lines 616-617: the id the queue holds at its current index
PlayableId(snap) == snap.list[snap.index + 1]

\* mainpage line 562: what is stored of a snapshot; the duration its status
\* reports is that of the queue's current track
StoredState(snap) ==
  [list |-> snap.list, index |-> snap.index, progressMs |-> snap.progressMs,
   durationMs |-> IF InQueue(snap) THEN DurationMs(PlayableId(snap)) ELSE 0,
   paused |-> snap.paused]

\* mainpage lines 568-595: the remote queue's playlist takes the snapshot's
\* index; its tracks are fetched again only if their number differs from the
\* snapshot's, and stay as they are if the fetch fails
UpdateStation(s, snap, fetch) ==
  LET s1 == [s EXCEPT !.stationCurrentTrack = snap.index]
  IN  IF Len(s.stationTracks) # Len(snap.list) /\ fetch
      THEN [s1 EXCEPT !.stationTracks = snap.list]
      ELSE s1

\* mainpage line 618
TrackChanged(s, snap) == PlayableId(snap) # s.track

\* mainpage line 619: the playlist's selected track, which is its current one
\* (lines 578-579), lies within its tracks
InStation(s) == s.stationCurrentTrack \in 0..(Len(s.stationTracks) - 1)

\* mainpage lines 616-620: the track played is the playlist's track at the
\* snapshot's index; indexing outside the snapshot's playable list or outside
\* the playlist's tracks panics
SwitchTrack(s, snap, download, k, accept) ==
  IF ~InQueue(snap) THEN [s EXCEPT !.panicked = TRUE]
  ELSE IF ~TrackChanged(s, snap) THEN s
  ELSE IF ~InStation(s) THEN [s EXCEPT !.panicked = TRUE]
  ELSE playTrack(s, s.stationTracks[s.stationCurrentTrack + 1], download, k, accept)

\* mutant of SyncReports: the corrections are reported like local changes
SyncReportsLocally == TRUE

\* mainpage lines 628, 634, 636: the report argument of the corrections
SyncReports == FALSE

\* mainpage lines 624, 626: the signed difference of the snapshot's progress and
\* the local position; fmt.Sprint(d, "ms") read back by time.ParseDuration is d
\* again for every d of less than 2^63 nanoseconds
Drift(s, snap) == snap.progressMs - GetCurrentPos(s)

\* mutant of Drifted: the tolerance itself counts as drift
DriftedFromThreshold(d) == Abs(d) >= SyncThreshold

\* mainpage line 625
Drifted(d) == Abs(d) > SyncThreshold

\* mainpage lines 622-630
SyncPosition(s, snap) ==
  IF Drifted(Drift(s, snap)) THEN Rewind(s, Drift(s, snap), SyncReports) ELSE s

\* mutant of SyncPause: the output is only ever paused, never resumed
SyncPauseOnly(s, snap) == IF snap.paused THEN Pause(s, SyncReports) ELSE s

\* mainpage lines 632-637
SyncPause(s, snap) ==
  IF snap.paused THEN Pause(s, SyncReports) ELSE Play(s, SyncReports)

\* mainpage lines 639-649
SyncVolume(s, snap) ==
  IF snap.volume # s.volume THEN SetVolume(s, snap.volume) ELSE s

\* mainpage lines 567-649, what the callback does for a snapshot of the active
\* device: fetch tells whether client.Tracks succeeds, download, k and accept are
\* the inputs of the playTrack it may call
ApplySnapshot(s, snap, fetch, download, k, accept) ==
  LET s1 == SwitchTrack(UpdateStation(s, snap, fetch), snap, download, k, accept)
  IN  IF s1.panicked THEN s1
      ELSE SyncVolume(SyncPause(SyncPosition(s1, snap), snap), snap)

\* mainpage lines 561-650: the callback for a pushed snapshot; did notes whether
\* the track was switched and holds the amount of the Rewind, 0 with none
OnMessage(snap, fetch, download, k, accept) ==
  LET s0 == UpdateStation(Cur, snap, fetch)
      plays == /\ snap.active
               /\ InQueue(snap)
               /\ TrackChanged(s0, snap)
               /\ InStation(s0)
      t == IF plays THEN s0.stationTracks[s0.stationCurrentTrack + 1] ELSE 0
      s1 == SwitchTrack(s0, snap, download, k, accept)
  IN
  /\ (~snap.active \/ Len(stationTracks) = Len(snap.list)) => fetch
  /\ download => Len(handles) < MaxHandles /\ plays
  /\ k \in (IF download THEN DecoderReads(NewHandle(ContentLength(t))) ELSE {0})
  /\ ~download => accept
  /\ PlayerState' = StoredState(snap)
  /\ IF snap.active
     THEN Commit(ApplySnapshot(Cur, snap, fetch, download, k, accept), "OnMessage",
                 IF ~s1.panicked /\ Drifted(Drift(s1, snap))
                 THEN Drift(s1, snap) ELSE 0,
                 IF s1.panicked THEN "panicked"
                 ELSE IF TrackChanged(s0, snap) THEN "switched" ELSE "kept")
     ELSE Commit(Cur, "OnMessage", 0, "inactive")
  /\ UNCHANGED <<unexpectedStop, dispatcher>>

\* the controller with no stream of its own under test: the handle variables
\* stay as newReadSeaker left them
TrackerInit ==
  /\ New(VolumeScale, FALSE)
  /\ totalSize = 1
  /\ newReadSeaker

\* the controller driven from the keyboard, by the program's control messages
\* and by its output
TrackerNext ==
  \/ KeyPlayerPause
  \/ \E a \in 1..MaxAmount : KeyRewind(a) \/ KeyRewind(0 - a)
  \/ ControlPlay
  \/ ControlPause
  \/ ControlStop
  \/ \E k \in 0..MaxHeader, accept \in BOOLEAN : ControlUnexpectedStop(k, accept)
  \/ OutputStops
  \/ \E k \in 1..MaxPull : OutputReads(k)
  \/ \E t \in Tracks, download \in BOOLEAN, k \in 0..MaxHeader, accept \in BOOLEAN :
       PlayTrack(t, download, k, accept)
  \/ forwardStatus
  \/ selectPlaylist

TrackerSpec == TrackerInit /\ [][TrackerNext]_vars

\* the remote queue is the selected playlist
RemoteInit ==
  /\ \E v \in 0..VolumeScale : New(v, TRUE)
  /\ totalSize = 1
  /\ newReadSeaker

\* the snapshots of one-track queues at progress 0: they differ in the device,
\* the track, the paused flag and the volume
VolumeSnapshots ==
  {snap \in Snapshots : Len(snap.list) = 1 /\ snap.progressMs = 0}

\* the controller driven by pushed snapshots, with the local volume keys, the
\* play/pause key and stops beside them
RemoteNext ==
  \/ \E snap \in VolumeSnapshots, fetch \in BOOLEAN, download \in BOOLEAN,
        k \in 0..MaxHeader, accept \in BOOLEAN :
       OnMessage(snap, fetch, download, k, accept)
  \/ KeyVolume(1) \/ KeyVolume(0 - 1)
  \/ KeyPlayerPause
  \/ ControlStop
  \/ \E k \in 1..MaxPull : OutputReads(k)
  \/ forwardStatus

RemoteSpec == RemoteInit /\ [][RemoteNext]_vars

\* the remote queue is the selected playlist and the volume is full
SyncInit ==
  /\ New(VolumeScale, TRUE)
  /\ totalSize = 1
  /\ newReadSeaker

\* the snapshots of the active device that agree with the local volume and
\* carry a one-track queue: they differ in the track, the progress and the
\* paused flag
DriftSnapshots ==
  {snap \in Snapshots :
     snap.active /\ snap.volume = VolumeScale /\ Len(snap.list) = 1}

\* the controller following the remote status: pushed snapshots, with the
\* play/pause key, stops and the playing output beside them
SyncNext ==
  \/ \E snap \in DriftSnapshots, fetch \in BOOLEAN, download \in BOOLEAN,
        k \in 0..MaxHeader, accept \in BOOLEAN :
       OnMessage(snap, fetch, download, k, accept)
  \/ KeyPlayerPause
  \/ ControlStop
  \/ \E k \in 1..MaxPull : OutputReads(k)
  \/ forwardStatus

SyncSpec == SyncInit /\ [][SyncNext]_vars

\* the snapshots of the active device that agree with the local volume and
\* report progress 0: they differ in the queue and the paused flag
QueueSnapshots ==
  {snap \in Snapshots :
     snap.active /\ snap.volume = VolumeScale /\ snap.progressMs = 0}

\* the controller following the remote queue: pushed snapshots of every queue,
\* with stops and the playing output beside them
QueueNext ==
  \/ \E snap \in QueueSnapshots, fetch \in BOOLEAN, download \in BOOLEAN,
        k \in 0..MaxHeader, accept \in BOOLEAN :
       OnMessage(snap, fetch, download, k, accept)
  \/ ControlStop
  \/ \E k \in 1..MaxPull : OutputReads(k)
  \/ forwardStatus

QueueSpec == SyncInit /\ [][QueueNext]_vars

(* ---------------- next and previous track in the remote queue ---------------- *)

\* mainpage lines 1005-1007 and 1076-1078: the playlist's current track moves to
\* index and that track is played; indexing outside the playlist's tracks panics
MoveTo(s, index, download, k, accept) ==
  LET s1 == [s EXCEPT !.stationCurrentTrack = index]
  IN  IF ~InStation(s1) THEN [s1 EXCEPT !.panicked = TRUE]
      ELSE playTrack(s1, s1.stationTracks[index + 1], download, k, accept)

\* mainpage lines 998-1001: at the first track prevTrack sends the program a
\* STOP, which ControlStop handles whenever it arrives, and returns
prevTrackReturns(s) == s.stationCurrentTrack = 0

\* mainpage lines 995-1007, the remote queue's playlist being the current one
prevTrack(s, download, k, accept) ==
  IF prevTrackReturns(s) THEN s
  ELSE MoveTo(s, s.stationCurrentTrack - 1, download, k, accept)

\* mainpage lines 1027-1029 and 1069-1074: nextTrack returns at once on a
\* playlist without tracks; past the last track of a playlist that is not
\* infinite it goes back to the first, sends a STOP and returns
nextTrackReturns(s) ==
  Len(s.stationTracks) = 0 \/ s.stationCurrentTrack + 1 >= Len(s.stationTracks)

\* mainpage lines 1024-1078, the remote queue's playlist being the current one
\* and not an infinite one
nextTrack(s, download, k, accept) ==
  IF Len(s.stationTracks) = 0 THEN s
  ELSE IF nextTrackReturns(s) THEN [s EXCEPT !.stationCurrentTrack = 0]
  ELSE MoveTo(s, s.stationCurrentTrack + 1, download, k, accept)

\* mainpage lines 1010-1015 and 1081-1086: what the stored snapshot holds after
\* prevTrack or nextTrack has left controller state s behind; m.PlayerState is
\* there whenever the playlist has tracks
SendCurrentTrack(s, state) ==
  IF s.YnisonPlaylist
  THEN [state EXCEPT !.index = s.stationCurrentTrack,
                     !.progressMs = 0,
                     !.durationMs = DurationMs(s.stationTracks[s.stationCurrentTrack + 1])]
  ELSE state

\* the inputs of the playTrack a move to the track at index may call
MoveInputs(index, download, k, accept) ==
  LET s1 == [Cur EXCEPT !.stationCurrentTrack = index]
      t == IF InStation(s1) THEN stationTracks[index + 1] ELSE 0
  IN  /\ download => Len(handles) < MaxHandles /\ InStation(s1)
      /\ k \in (IF download THEN DecoderReads(NewHandle(ContentLength(t))) ELSE {0})
      /\ ~download => accept

\* mainpage Update lines 801-802 with prevTrack lines 995-1022
ControlPrev(download, k, accept) ==
  LET s1 == prevTrack(Cur, download, k, accept)
  IN  /\ IF prevTrackReturns(Cur) THEN ~download /\ k = 0 /\ accept
         ELSE MoveInputs(stationCurrentTrack - 1, download, k, accept)
      /\ Commit(s1, "prevTrack", 0,
                IF prevTrackReturns(Cur) THEN "returned"
                ELSE IF s1.panicked THEN "panicked" ELSE "moved")
      /\ PlayerState' = IF prevTrackReturns(Cur) \/ s1.panicked THEN PlayerState
                        ELSE SendCurrentTrack(s1, PlayerState)
      /\ UNCHANGED <<unexpectedStop, dispatcher>>

\* mainpage Update lines 799-800 with nextTrack lines 1024-1093
ControlNext(download, k, accept) ==
  LET s1 == nextTrack(Cur, download, k, accept)
  IN  /\ IF nextTrackReturns(Cur) THEN ~download /\ k = 0 /\ accept
         ELSE MoveInputs(stationCurrentTrack + 1, download, k, accept)
      /\ Commit(s1, "nextTrack", 0,
                IF nextTrackReturns(Cur) THEN "returned"
                ELSE IF s1.panicked THEN "panicked" ELSE "moved")
      /\ PlayerState' = IF nextTrackReturns(Cur) \/ s1.panicked THEN PlayerState
                        ELSE SendCurrentTrack(s1, PlayerState)
      /\ UNCHANGED <<unexpectedStop, dispatcher>>

\* the snapshots Snapshots leaves out: those whose queue is empty or whose
\* current index is -1 (as in the state this client opens the session with,
\* mainpage lines 898-900) or lies past the end of the queue
EdgeSnapshots ==
  {snap \in [active : BOOLEAN, list : Queues \cup {<<>>},
             index : (0 - 1)..Cardinality(Tracks),
             progressMs : {0, SyncThreshold + 1}, paused : BOOLEAN,
             volume : {0, VolumeScale}] :
     ~InQueue(snap)}

\* the snapshots of the active device that agree with the local volume, report
\* progress 0 and are not paused: they differ in the queue and its index, which
\* may lie outside the queue
NavSnapshots ==
  {snap \in Snapshots \cup EdgeSnapshots :
     snap.active /\ snap.volume = VolumeScale /\ snap.progressMs = 0 /\ ~snap.paused}

\* the controller following the remote queue while the user steps through it
NavNext ==
  \/ \E snap \in NavSnapshots, fetch \in BOOLEAN, download \in BOOLEAN,
        k \in 0..MaxHeader, accept \in BOOLEAN :
       OnMessage(snap, fetch, download, k, accept)
  \/ \E download \in BOOLEAN, k \in 0..MaxHeader, accept \in BOOLEAN :
       ControlPrev(download, k, accept)
  \/ \E download \in BOOLEAN, k \in 0..MaxHeader, accept \in BOOLEAN :
       ControlNext(download, k, accept)
  \/ ControlStop
  \/ forwardStatus

NavSpec == SyncInit /\ [][NavNext]_vars

(* ---------------- the Update loop beside the snapshot callback ---------------- *)

\* tracker Update lines 260-261 with Stop lines 350-367: the loop has entered
\* Stop on an output that is there and stands past m.player.Close()
StopBegins ==
  /\ dispatcher = "idle"
  /\ player # "nil"
  /\ Commit(StopReleases(Cur), "other", 0, "none")
  /\ dispatcher' = "Stop"
  /\ UNCHANGED <<unexpectedStop, PlayerState>>

\* Stop line 368: m.player = nil, whatever m.player holds by now
StopEnds ==
  /\ dispatcher = "Stop"
  /\ Commit([Cur EXCEPT !.player = "nil"], "other", 0, "none")
  /\ dispatcher' = "idle"
  /\ UNCHANGED <<unexpectedStop, PlayerState>>

\* tracker Update lines 216-224 with Play lines 379-388 or Pause lines 399-408:
\* the loop has reached the send on the unbuffered channel while the forwarding
\* task is still delivering the event before, and waits there
KeyPlayerPauseWaits ==
  /\ dispatcher = "idle"
  /\ player # "nil"
  /\ IF player = "playing" THEN ~PauseReturns(Cur) ELSE ~PlayReturns(Cur)
  /\ Reports(Cur, TRUE)
  /\ UpdatePlayingStatus # <<>>
  /\ Commit(Cur, "other", 0, "none")
  /\ dispatcher' = IF player = "playing" THEN "Pause" ELSE "Play"
  /\ UNCHANGED <<unexpectedStop, PlayerState>>

\* the forwarding task is back at its receive, the send completes and the method
\* goes on to m.player.Play() (line 396) or m.player.Pause() (line 416): a nil
\* dereference if the session has been stopped in the meantime
SendCompletes ==
  /\ dispatcher \in {"Play", "Pause"}
  /\ UpdatePlayingStatus = <<>>
  /\ Commit(IF player = "nil"
            THEN [Send(Cur, dispatcher = "Pause") EXCEPT !.panicked = TRUE]
            ELSE [Send(Cur, dispatcher = "Pause") EXCEPT
                    !.player = OutputSet(@, IF dispatcher = "Pause" THEN "paused"
                                            ELSE "playing")],
            "other", 0, "none")
  /\ dispatcher' = "idle"
  /\ UNCHANGED <<unexpectedStop, PlayerState>>

\* the snapshots of DriftSnapshots that report progress 0
StartSnapshots == {snap \in DriftSnapshots : snap.progressMs = 0}

\* the Update loop, stepping through Stop and through the sends of Play and
\* Pause, beside the callback the remote client runs for every pushed snapshot,
\* the playing output and the forwarding task
ConcurrentNext ==
  \/ \E snap \in StartSnapshots, fetch \in BOOLEAN, download \in BOOLEAN,
        k \in 0..MaxHeader, accept \in BOOLEAN :
       OnMessage(snap, fetch, download, k, accept)
  \/ dispatcher = "idle" /\ KeyPlayerPause
  \/ KeyPlayerPauseWaits
  \/ SendCompletes
  \/ StopBegins
  \/ StopEnds
  \/ \E k \in 1..MaxPull : OutputReads(k)
  \/ forwardStatus

ConcurrentSpec == SyncInit /\ [][ConcurrentNext]_vars

(* ---------------- properties ---------------- *)

\* the step is a call of method op returning
Returns(op) == actor' = "api" /\ last'.op = op

\* C1: a successful Seek to p followed by a Read on a handle that has not been
\* closed returns a count n within the destination and the n bytes delivered are
\* the source's bytes at offsets p, p+1, ..., p+n-1
SeekThenReadRoundTrip ==
  [][(last.op = "Seek" /\ last.err = "nil" /\ ~closeReturned /\ Returns("Read"))
       => /\ last'.n <= Len(last'.dest)
          /\ \A i \in 1..last'.n : last'.dest[i] = SourceByte(last.pos + i - 1)]_vars

\* C2: every Read returns a count between 0 and len(dest) and advances the
\* cursor by exactly that count
ReadCountAndAdvance ==
  [][Returns("Read")
       => /\ last'.n \in 0..Len(last'.dest)
          /\ readIndex' = readIndex + last'.n]_vars

\* C3: a Seek whose computed position is negative or beyond the total returns
\* the bounds error and the unchanged cursor, and changes nothing of the handle
SeekOutOfRangeRejected ==
  [][(Returns("Seek") /\ (last'.target < 0 \/ last'.target > totalSize))
       => /\ last'.err = "errOutOfSize"
          /\ last'.pos = readIndex
          /\ UNCHANGED <<readIndex, done, readBuffer, buffered, closed,
                         bufferTimer, srcPos, srcCloses>>]_vars

\* C3 witness: a Seek beyond the total was rejected on a handle that has a
\* non-empty buffer and a cursor off the start
SeekRejectedReached ==
  /\ actor = "api" /\ last.op = "Seek" /\ last.err = "errOutOfSize"
  /\ last.target > totalSize
  /\ readIndex > 0 /\ Len(readBuffer) > 0

\* C4: the live source's Close is invoked at most once
SourceReleasedAtMostOnce == srcCloses <= 1

\* C5: once Close has returned, every Read returns zero bytes with the
\* end-of-data signal, pulls nothing from the source and does not release it again
ReadAfterCloseIsEndOfData ==
  [][(closeReturned /\ Returns("Read"))
       => /\ last'.n = 0
          /\ last'.err = "EOF"
          /\ srcPos' = srcPos
          /\ srcCloses' = srcCloses]_vars

\* C6: when Close returns, the source has been released and the buffer discarded
CloseReleasesSource ==
  (actor = "api" /\ last.op = "Close") => (srcCloses >= 1 /\ readBuffer = <<>>)

PrefetchReachesWatermark ==
  <>(\/ touched
     \/ totalSize < BufferingAmount
     \/ Len(readBuffer) # srcPos
     \/ Len(readBuffer) >= BufferingAmount)

\* C8 witness: the untouched handle has buffered the watermark, every byte the
\* source handed out being in the buffer
WatermarkBufferedReached ==
  /\ ~touched /\ totalSize >= BufferingAmount
  /\ Len(readBuffer) = srcPos
  /\ Len(readBuffer) >= BufferingAmount

\* C9: on a handle that has not been closed, the buffer equals the first
\* len(buffer) bytes of the live source
BufferIsSourcePrefix ==
  ~closeReturned => readBuffer = SourceBytes(0, Len(readBuffer))

\* C10: the cursor lies in [0, total] and the total is positive, so that
\* Progress() = cursor / total lies in [0, 1]
CursorWithinTotal == totalSize > 0 /\ readIndex \in 0..totalSize

\* C10 witness: a Read beyond the buffer's end pulled bytes from the source but
\* the source failed before the gap was filled, so nothing was delivered
GapReadFailedReached ==
  /\ actor = "api" /\ last.op = "Read" /\ ~closeReturned
  /\ last.n > 0 /\ Len(last.dest) > 0 /\ last.dest[1] = Stale
  /\ readIndex < totalSize

(* ---------------- properties of the playback controller ---------------- *)

\* the cursor of the attached handle
CursorNow == Cursor(Cur)

\* the step is a Rewind called on a live output
Rewinds == did'.op = "Rewind" /\ player \in {"paused", "playing"}

\* pos aligned down to the nearest multiple of 4
AlignDown(pos) == pos - (pos % 4)

\* C11: Rewind(delta) aims at the cursor plus round(length / duration * delta)
\* aligned down to the nearest multiple of 4, and whenever that target lies
\* strictly between 0 and the length it is the position handed to seek, a
\* multiple of 4
RewindSeeksAlignedTarget ==
  [][Rewinds =>
       LET target == AlignDown(CursorNow + ByteOffset(Length(Cur), trackDurationMs,
                                                      did'.arg))
       IN  target \in 1..(Length(Cur) - 1) =>
             CursorNow' = target /\ CursorNow' % 4 = 0]_vars

\* C12: Rewind never asks for a seek out of range: a position at or below 0
\* seeks to the start, one at or beyond the length seeks to the end, any other
\* is sought as it is, and the cursor afterwards lies within [0, length]
RewindStaysInRange ==
  [][Rewinds =>
       LET pos == RewindPos(Cur, did'.arg)
       IN  /\ CursorNow' = (IF pos <= 0 THEN 0
                            ELSE IF pos >= Length(Cur) THEN Length(Cur) ELSE pos)
           /\ CursorNow' \in 0..Length(Cur)]_vars

\* a Rewind aimed beyond the end has left the cursor at the length
RewindClampedReached ==
  /\ did.op = "Rewind" /\ did.note = "clamped"
  /\ player \in {"paused", "playing"}
  /\ did.from + ByteOffset(Length(Cur), trackDurationMs, did.arg) > Length(Cur)
  /\ CursorNow = Length(Cur)

SetVolumeClampsOutput ==
  did.op = "SetVolume" =>
    /\ volume \in 0..VolumeScale
    /\ player # "nil" => playerVolume = volume

\* the session, apart from the output's state and the outbound events
sessionVars == <<track, volume, playerVolume, trackReader, decoder,
                 trackDurationMs, YnisonPlaylist, handles, unexpectedStop,
                 panicked, PlayerState>>

\* C15: Play and Pause move the controller only between Playing and Paused,
\* and Play with no session or while playing, Pause with no session or while
\* paused, change no state and emit no outbound event
PlayPauseOnlyToggle ==
  [][/\ did'.op = "Play" =>
          /\ UNCHANGED sessionVars
          /\ player = "paused" => player' = "playing"
          /\ player # "paused" => player' = player
          /\ player \in {"nil", "playing"} => UNCHANGED UpdatePlayingStatus
     /\ did'.op = "Pause" =>
          /\ UNCHANGED sessionVars
          /\ player = "playing" => player' = "paused"
          /\ player # "playing" => player' = player
          /\ player \in {"nil", "paused"} => UNCHANGED UpdatePlayingStatus]_vars

\* Play has been called on a playing session while events are forwarded
PlayWhilePlayingReached ==
  /\ did.op = "Play" /\ did.note = "returned"
  /\ player = "playing" /\ YnisonPlaylist

\* C16: Stop from any state leaves the controller stopped, with no output and
\* the attached handle closed, and a Stop with no output changes nothing and
\* closes nothing again
StopLeavesStopped ==
  [][did'.op = "Stop" =>
       /\ player' = "nil"
       /\ trackReader' = trackReader
       /\ trackReader # 0 => handles'[trackReader].closes = 1
       /\ player = "nil" =>
            UNCHANGED <<sessionVars, player, UpdatePlayingStatus>>]_vars

\* a second Stop has run on a stopped session whose handle was closed once
StoppedTwiceReached ==
  /\ did.op = "Stop" /\ did.note = "returned"
  /\ player = "nil" /\ trackReader # 0
  /\ handles[trackReader].closes = 1

\* C17: a StartTrack whose decoder rejects the header creates no session and
\* leaves the track descriptor, the attached handle, the output and its state
\* as they were when it was called
StartTrackRejectedIsNoOp ==
  [][(did'.op = "playTrack" /\ did'.note = "rejected") =>
       LET s == Stop(Cur)
       IN  /\ track' = s.track
           /\ trackReader' = s.trackReader
           /\ decoder' = s.decoder
           /\ player' = s.player]_vars

\* C18: an unsolicited stop of a playing session whose decoder can be rebuilt
\* ends with the session playing on the same handle, still open
RestartEndsPlaying ==
  [][(did'.op = "restartTrack" /\ did'.note = "accepted" /\ player = "playing") =>
       /\ player' = "playing"
       /\ trackReader' = trackReader
       /\ handles'[trackReader].closes = 0]_vars

\* C19: a restart whose decoder cannot be built ends with the controller
\* stopped: no output and the handle closed
RestartFailureStops ==
  [][(did'.op = "restartTrack" /\ did'.note = "rejected") =>
       /\ player' = "nil"
       /\ handles'[trackReader'].closes >= 1]_vars

\* C20: a snapshot whose active device is not this one changes nothing: the
\* stored remote state, the session, the volume and the outbound channel stay
InactiveSnapshotIgnored ==
  [][(did'.op = "OnMessage" /\ did'.note = "inactive") =>
       UNCHANGED <<PlayerState, sessionVars, player, UpdatePlayingStatus>>]_vars

\* the step is the callback for a snapshot of the active device running to its end
Synced == did'.op = "OnMessage" /\ did'.note \in {"kept", "switched"}

\* C21: the corrections a snapshot causes (the Rewind against drift, the Play or
\* Pause that copies its paused flag) hand no event to the outbound channel, even
\* while the remote queue is the selected playlist: a snapshot that keeps the
\* track leaves the channel as it was, one that switches the track adds nothing
\* beyond the event of the new track's start
CorrectionsNotForwarded ==
  [][Synced =>
       \/ UpdatePlayingStatus' = UpdatePlayingStatus
       \/ /\ did'.note = "switched"
          /\ UpdatePlayingStatus' = Append(UpdatePlayingStatus, [paused |-> FALSE])]_vars

\* a snapshot has just paused a session of the remote queue and moved it
\* against drift
CorrectedReached ==
  /\ did.op = "OnMessage" /\ did.note = "kept" /\ did.arg # 0
  /\ YnisonPlaylist /\ player = "paused" /\ PlayerState.paused
  /\ UpdatePlayingStatus = <<>>

\* C22: a track switch made because the snapshot's current id differs from the
\* local track's hands no event to the outbound channel
SnapshotSwitchNotForwarded ==
  [][(did'.op = "OnMessage" /\ did'.note = "switched") =>
       UpdatePlayingStatus' = UpdatePlayingStatus]_vars

\* C24: once a snapshot of the active device has made the controller start a
\* track, the local track's id is the snapshot's current playable id
RemoteTrackWins ==
  [][(did'.op = "OnMessage" /\ did'.note = "switched" /\ player' # "nil") =>
       track' = PlayableId(PlayerState')]_vars

\* C23: a snapshot of the active device that keeps the track makes the
\* controller Rewind exactly if its progress and the local position differ by
\* more than the tolerance, by the signed difference of the two, and the stream
\* is left where that Rewind puts it; with a difference within the tolerance the
\* stream is left untouched
DriftCorrected ==
  [][(did'.op = "OnMessage" /\ did'.note = "kept") =>
       LET d == PlayerState'.progressMs - GetCurrentPos(Cur)
       IN  /\ did'.arg # 0 <=> Abs(d) > SyncThreshold
           /\ did'.arg # 0 => /\ did'.arg = d
                              /\ handles' = Rewind(Cur, d, FALSE).handles
           /\ did'.arg = 0 => handles' = handles]_vars

\* a snapshot has just moved a session back against drift
DriftCorrectedBackReached ==
  /\ did.op = "OnMessage" /\ did.note = "kept" /\ did.arg < 0
  /\ player # "nil"
  /\ CursorNow < handles[trackReader].totalSize

\* C25: after a snapshot of the active device has been processed with a session
\* in place, the output is paused if the snapshot's paused flag is set and
\* playing if it is not
PausedFlagApplied ==
  [][(Synced /\ player' \in {"paused", "playing"}) =>
       player' = IF PlayerState'.paused THEN "paused" ELSE "playing"]_vars

\* a snapshot that keeps the track has just left a session playing on
SyncedPlayingReached ==
  /\ did.op = "OnMessage" /\ did.note = "kept" /\ did.arg = 0
  /\ player = "playing" /\ ~PlayerState.paused
  /\ CursorNow > 0

\* the step is a Play, Pause or Rewind asked for locally that takes effect: the
\* output changes between Paused and Playing, or a live output is made to seek
LocalChange ==
  \/ did'.op \in {"Play", "Pause"} /\ player' # player
  \/ Rewinds /\ did'.note # "returned"

\* C26: while the remote queue is the selected playlist every local Play, Pause
\* or Rewind that takes effect hands exactly one event to the outbound channel;
\* while it is not, no transport operation hands over any
LocalChangesForwarded ==
  [][((LocalChange /\ YnisonPlaylist) =>
        (/\ Len(UpdatePlayingStatus') = Len(UpdatePlayingStatus) + 1
         /\ SubSeq(UpdatePlayingStatus', 1, Len(UpdatePlayingStatus)) =
              UpdatePlayingStatus))
     /\ ((~YnisonPlaylist /\ did'.op \in {"Play", "Pause", "Rewind", "Stop",
                                          "playTrack", "restartTrack"}) =>
           UpdatePlayingStatus' = UpdatePlayingStatus)]_vars

\* a local Rewind of a session of the remote queue has just handed over its event
RewindForwardedReached ==
  /\ did.op = "Rewind" /\ did.note = "sought"
  /\ YnisonPlaylist /\ player = "playing"
  /\ Len(UpdatePlayingStatus) = 1

\* C27: the callback for a pushed snapshot runs only between two messages of
\* the Update loop, never while the loop is inside a method of the controller
SnapshotsSerialized ==
  [][did'.op = "OnMessage" => dispatcher = "idle"]_vars

\* C28: the Update loop never waits at a send on the outbound channel
ProducersNeverWait == dispatcher \notin {"Play", "Pause"}

\* C29: no Seek call ever waits: it does its bookkeeping even while a Read or
\* the background goroutine is inside a read of a source that does not answer
SeekNeverWaits == ~seekWaits

\* C30: once a Close has returned, no step of the background goroutine reads
\* from the source or appends to the buffer, and the goroutine comes to its end
BackgroundEndsAfterClose ==
  /\ [][(closeReturned /\ actor' = "bg") =>
          (srcPos' = srcPos /\ readBuffer' = readBuffer)]_vars
  /\ (closeReturned ~> bgpc = "done")

\* the goroutine has come to its end after a Close that found it still buffering
ClosedThenEndedReached ==
  /\ closeReturned /\ closed
  /\ last.op = "Close" /\ actor = "bg"
  /\ bgpc = "done"

\* C31: on a handle that has not been closed, a Read that ends with the cursor
\* below the total does not return the end-of-data signal, does not mark the
\* handle done and does not release the source
ReadEndOfDataOnlyAtTotal ==
  [][(~closeReturned /\ Returns("Read") /\ readIndex' < totalSize) =>
       /\ last'.err # "EOF"
       /\ done' = done
       /\ srcCloses' = srcCloses]_vars

\* C32: every stream that has been downloaded and not closed is the one attached
\* to the current session, so at most one is open at a time
OpenHandleIsAttached ==
  \A i \in 1..Len(handles) :
    handles[i].closes = 0 => (i = trackReader /\ player # "nil")

\* C33: every event handed to the outbound channel describes the output as the
\* step that sends it leaves it: its paused flag is set if the output is paused
\* and clear if it is playing
EventsTellOutputState ==
  [][(/\ Len(UpdatePlayingStatus') = Len(UpdatePlayingStatus) + 1
      /\ player' \in {"paused", "playing"}) =>
       UpdatePlayingStatus'[Len(UpdatePlayingStatus')].paused = (player' = "paused")]_vars

\* C34: the stored remote snapshot changes only by being replaced by the next
\* pushed snapshot: no other step, the local next-track and previous-track
\* among them, touches its index, progress, duration or paused flag
PlayerStateReadOnly ==
  [][did'.op # "OnMessage" => PlayerState' = PlayerState]_vars

\* C35: the callback for a snapshot of the active device never indexes outside
\* the snapshot's playable list or the playlist's tracks, whatever the queue and
\* its index are and whether or not the tracks could be fetched
SnapshotLookupsInRange ==
  [][did'.op = "OnMessage" => ~panicked']_vars

\* C36: an unsolicited-stop notification handled when there is no output, no
\* attached handle or a closed one does nothing: restartTrack leaves the
\* session and the outbound channel as they are and the program keeps running
RestartNeedsSession ==
  [][(/\ did'.op = "restartTrack"
      /\ (player = "nil" \/ trackReader = 0 \/ handles[trackReader].closes > 0)) =>
       /\ ~panicked'
       /\ UNCHANGED <<player, decoder, handles, UpdatePlayingStatus>>]_vars
====
